---- MODULE Spec2Model ----
(***************************************************************************)
(* idb-mutex: a mutex for coordinating activities across browser tabs,     *)
(* built on IndexedDB transactions (src/src/index.ts, the Mutex class that *)
(* takes (name, db, options)).                                             *)
(*                                                                         *)
(* Time is in milliseconds, as Date.now() and setTimeout count it.  Each   *)
(* handle has one lock() call and one unlock() call in flight at most; a   *)
(* finished call keeps its outcome until the next call of its kind.        *)
(***************************************************************************)
EXTENDS Integers, Sequences, FiniteSets

(***************************************************************************)
(* Bounds of the model.                                                    *)
(***************************************************************************)
\* Date.now() runs from StartTime to MaxTime.
MaxTime == 3
\* Requests (database open, get, put) that fail in one behaviour.
MaxFailures == 1
\* lock() and unlock() calls made in one behaviour.
MaxCalls == 4

\* Date.now() at the start: a wall clock reads a positive number of ms.
StartTime == 1

(***************************************************************************)
(* The callers' inputs: handles, lock names, databases, options.           *)
(***************************************************************************)
Handles == {"A", "B", "C"}
Names == {"bar", "foo"}
\* Each database holds the one object store the handles bound to it use.
Dbs == {"idb-mutex", "newdb"}

\* `options` not passed to the constructor.
NoOptions == [given |-> FALSE, expiry |-> 0, spinDelay |-> 0]
\* `options` with an expiry and a spinDelay a few ms long.
ShortOptions == [given |-> TRUE, expiry |-> 1, spinDelay |-> 1]
\* The options each handle is constructed with: A takes the defaults.
OptionChoices ==
    { [A |-> NoOptions, B |-> ShortOptions, C |-> ShortOptions] }

DEFAULT_EXPIRY == 10 * 1000
DEFAULT_SPIN_DELAY == 50

\* Where the handles are bound: all three contend for one record; or A is
\* bound to the same name in another database, or to another name in the
\* same database.
KeyChoices ==
    { [A |-> <<"idb-mutex", "bar">>, B |-> <<"idb-mutex", "bar">>,
       C |-> <<"idb-mutex", "bar">>],
      [A |-> <<"newdb", "bar">>, B |-> <<"idb-mutex", "bar">>,
       C |-> <<"idb-mutex", "bar">>],
      [A |-> <<"idb-mutex", "foo">>, B |-> <<"idb-mutex", "bar">>,
       C |-> <<"idb-mutex", "bar">>] }

\* Math.round(Math.random() * 10000) of each constructor call.  Ids are only
\* ever compared for equality: either the three draws differ, or B and C,
\* which always contend for one record, draw the same number.
RandomChoices ==
    { r \in [Handles -> 0 .. 2] :
        r["A"] = 0 /\ r["B"] = 1 /\ r["C"] \in {1, 2} }

Digits == <<"0", "1", "2", "3", "4", "5", "6", "7", "8", "9">>

RECURSIVE ToString(_)
\* Number.prototype.toString() of a non-negative integer.
ToString(n) ==
    IF n < 10 THEN Digits[n + 1]
    ELSE ToString(n \div 10) \o Digits[(n % 10) + 1]

\* The Mutex constructor: the fields of a new handle.
NewMutex(name, db, options, rnd) ==
    [ _id        |-> ToString(rnd),
      _name      |-> name,
      _db        |-> db,
      _expiry    |-> IF options.given /\ options.expiry # 0
                     THEN options.expiry ELSE DEFAULT_EXPIRY,
      _spinDelay |-> IF options.given /\ options.spinDelay # 0
                     THEN options.spinDelay ELSE DEFAULT_SPIN_DELAY ]

(***************************************************************************)
(* State.                                                                  *)
(***************************************************************************)
VARIABLES
    mutex,      \* handle -> its fields, set by the constructor
    dbState,    \* handle -> state of its _db promise
    store,      \* database -> lock name -> the LockMeta stored, or Absent
    active,     \* database -> the handle whose _tryLock transaction is
                \* running on the object store, or NoTx
    calls,      \* handle -> "lock" / "unlock" -> the state of that call
    now,        \* Date.now()
    held,       \* handle -> a lock() of it has resolved, it has not called
                \* unlock() since and no unlock() of it is pending
    deadline,   \* handle -> the expiresAt its last granted tryLock wrote
    released,   \* handle -> an unlock() has written its record since its
                \* last granted tryLock
    raced,      \* handle -> the handle whose _tryLock on the same record
                \* returned true last while its own current _tryLock was
                \* waiting for its transaction, or NoRival
    releaseSeen,\* handle -> Date.now() at the last unlock() write on its
                \* record made while its lock() was spinning; 0 if none
                \* since its lock() was called
    failures,   \* requests that have failed so far
    ncalls      \* lock() and unlock() calls made so far

vars ==
    <<mutex, dbState, store, active, calls, now, held, deadline, released,
      raced, releaseSeen, failures, ncalls>>

Absent == [owner |-> "undefined", expiresAt |-> -1]
\* unlock() deleting the record instead of writing it.
Unlocked_Deleted == Absent
\* What unlock() writes (owner: null).
Unlocked == [owner |-> "null", expiresAt |-> 0]

NoTx == "none"
NoRival == "none"

\* A call not made yet, and a call just made.
\* (spunAt: Date.now() at the first attempt of the call that was denied, 0
\* if none was.  renews: the call is a lock() made by the holder of the
\* lock before the expiresAt of its record.)
IdleCall ==
    [pc |-> "idle", wakeAt |-> 0, expiresAt |-> 0, spunAt |-> 0,
     renews |-> FALSE]
NewCall ==
    [pc |-> "awaitDb", wakeAt |-> 0, expiresAt |-> 0, spunAt |-> 0,
     renews |-> FALSE]

InFlight(call) == call.pc \in {"awaitDb", "put", "delay"}

\* A lock() that has been denied and waits, or is at its next attempt.
Spinning(call) ==
    \/ call.pc = "delay"
    \/ call.pc = "awaitDb" /\ call.spunAt # 0

SameRecord(g, h) ==
    mutex[g]._db = mutex[h]._db /\ mutex[g]._name = mutex[h]._name

Init ==
    /\ \E keys \in KeyChoices, opts \in OptionChoices,
          rnd \in RandomChoices :
          mutex = [h \in Handles |->
                      NewMutex(keys[h][2], keys[h][1], opts[h], rnd[h])]
    /\ dbState = [h \in Handles |-> "pending"]
    /\ store = [d \in Dbs |-> [n \in Names |-> Absent]]
    /\ active = [d \in Dbs |-> NoTx]
    /\ calls = [h \in Handles |-> [lock |-> IdleCall, unlock |-> IdleCall]]
    /\ now = StartTime
    /\ held = [h \in Handles |-> FALSE]
    /\ deadline = [h \in Handles |-> 0]
    /\ released = [h \in Handles |-> FALSE]
    /\ raced = [h \in Handles |-> NoRival]
    /\ releaseSeen = [h \in Handles |-> 0]
    /\ failures = 0
    /\ ncalls = 0

(***************************************************************************)
(* The database open request of a handle (_initDb, or the db passed in).   *)
(* Its outcome shows only to a call that awaits _db.                       *)
(***************************************************************************)
Awaited(h) ==
    calls[h].lock.pc = "awaitDb" \/ calls[h].unlock.pc = "awaitDb"

OpenSuccess(h) ==
    /\ dbState[h] = "pending"
    /\ Awaited(h)
    /\ dbState' = [dbState EXCEPT ![h] = "open"]
    /\ UNCHANGED <<mutex, store, active, calls, now, held,
                   deadline, released, failures, ncalls,
                   raced, releaseSeen>>

OpenError(h) ==
    /\ dbState[h] = "pending"
    /\ Awaited(h)
    /\ failures < MaxFailures
    /\ failures' = failures + 1
    /\ dbState' = [dbState EXCEPT ![h] = "error"]
    /\ UNCHANGED <<mutex, store, active, calls, now,
                   held, deadline, released, ncalls,
                   raced, releaseSeen>>

(***************************************************************************)
(* lock() and unlock() are called.                                         *)
(***************************************************************************)
\* h holds the lock, the record is the one its last lock() wrote and its
\* expiresAt is still ahead.
Renewing(h) ==
    /\ held[h] /\ ~released[h]
    /\ store[mutex[h]._db][mutex[h]._name] =
          [owner |-> mutex[h]._id, expiresAt |-> deadline[h]]
    /\ now < deadline[h]

Lock(h) ==
    /\ ncalls < MaxCalls
    /\ ncalls' = ncalls + 1
    /\ ~InFlight(calls[h].lock)
    /\ calls' = [calls EXCEPT ![h].lock =
                    [NewCall EXCEPT !.renews = Renewing(h)]]
    /\ UNCHANGED <<mutex, dbState, store, active, now,
                   held, deadline, released, failures,
                   raced, releaseSeen>>

Unlock(h) ==
    /\ ncalls < MaxCalls
    /\ ncalls' = ncalls + 1
    /\ ~InFlight(calls[h].unlock)
    /\ calls' = [calls EXCEPT ![h].unlock = NewCall]
    /\ held' = [held EXCEPT ![h] = FALSE]
    /\ UNCHANGED <<mutex, dbState, store, active, now,
                   deadline, released, failures,
                   raced, releaseSeen>>

\* LockAwaitDbRejected of a lock() that opens the database again when the
\* open request it awaited has failed.
LockAwaitDbRejected_OpensAgain(h) ==
    /\ calls[h].lock.pc = "awaitDb"
    /\ dbState[h] = "error"
    /\ dbState' = [dbState EXCEPT ![h] = "pending"]
    /\ raced' = [raced EXCEPT ![h] = NoRival]
    /\ UNCHANGED <<mutex, calls, store, active, now, held,
                   deadline, released, failures, ncalls,
                   releaseSeen>>

\* `await this._db` of a handle whose database failed to open.
LockAwaitDbRejected(h) ==
    /\ calls[h].lock.pc = "awaitDb"
    /\ dbState[h] = "error"
    /\ calls' = [calls EXCEPT ![h].lock.pc = "rejected"]
    /\ raced' = [raced EXCEPT ![h] = NoRival]
    /\ UNCHANGED <<mutex, dbState, store, active, now, held,
                   deadline, released, failures, ncalls,
                   releaseSeen>>

UnlockAwaitDbRejected(h) ==
    /\ calls[h].unlock.pc = "awaitDb"
    /\ dbState[h] = "error"
    /\ calls' = [calls EXCEPT ![h].unlock.pc = "rejected"]
    /\ UNCHANGED <<mutex, dbState, store, active, now, held,
                   deadline, released, failures, ncalls,
                   raced, releaseSeen>>

(***************************************************************************)
(* _tryLock: one readwrite transaction, a get and, if granted, a put.      *)
(***************************************************************************)
\* Grantable with `expiresAt <= Date.now()`: a record is taken over in the
\* very millisecond it expires at.
Grantable_ExpiredAtDeadline(lockMeta, id, t) ==
    \/ lockMeta = Absent
    \/ lockMeta.owner = id
    \/ lockMeta.expiresAt <= t

\* Grantable without `lockMeta.owner === this._id`.
Grantable_NoOwnerCheck(lockMeta, id, t) ==
    \/ lockMeta = Absent
    \/ lockMeta.expiresAt < t

\* Grantable without `lockMeta.expiresAt < Date.now()`.
Grantable_NoExpiryCheck(lockMeta, id, t) ==
    \/ lockMeta = Absent
    \/ lockMeta.owner = id

\* Grantable of a lock that serves its waiters in order of arrival: an
\* attempt is denied while a handle of another id that began to wait earlier
\* is still waiting.
Grantable_InOrderOfArrival(lockMeta, id, t) ==
    /\ \/ lockMeta = Absent
       \/ lockMeta.owner = id
       \/ lockMeta.expiresAt < t
    /\ ~ \E g, h \in Handles :
            /\ mutex[h]._id = id /\ mutex[g]._id # id
            /\ calls[h].lock.pc = "awaitDb"
            /\ Spinning(calls[g].lock)
            /\ calls[g].lock.spunAt < calls[h].lock.spunAt

\* The condition of the `if` in lockMetaReq.onsuccess.
Grantable(lockMeta, id, t) ==
    \/ lockMeta = Absent
    \/ lockMeta.owner = id
    \/ lockMeta.expiresAt < t

\* delay with the wait of 250 ms written into it, whatever spinDelay says.
delay_HardCoded(t, ms) == t + 250

\* delay(ms): setTimeout(resolve, ms) called at time t fires at t + ms at the
\* soonest.
delay(t, ms) == t + ms

\* TxCanStart of a store that does not serialize readwrite transactions.
TxCanStart_Unserialized(h, call) ==
    /\ call.pc = "awaitDb"
    /\ dbState[h] = "open"

\* db.transaction(objectStoreName, 'readwrite'): the transaction starts only
\* when no other readwrite transaction is running on the object store.
TxCanStart(h, call) ==
    /\ call.pc = "awaitDb"
    /\ dbState[h] = "open"
    /\ active[mutex[h]._db] = NoTx

\* LockMetaReqSuccess of a lock that does not renew: an attempt that finds
\* the handle's own record returns true without a put.
LockMetaReqSuccess_NoRenewal(h) ==
    /\ TxCanStart(h, calls[h].lock)
    /\ LET m == mutex[h]
           lockMeta == store[m._db][m._name]
       IN IF lockMeta # Absent /\ lockMeta.owner = m._id
          THEN /\ calls' = [calls EXCEPT ![h].lock.pc = "resolved"]
               /\ UNCHANGED <<raced, active>>
          ELSE IF Grantable(lockMeta, m._id, now)
          THEN /\ calls' = [calls EXCEPT ![h].lock.pc = "put",
                                         ![h].lock.expiresAt = now + m._expiry]
               /\ active' = [active EXCEPT ![m._db] = h]
               /\ UNCHANGED raced
          ELSE /\ calls' = [calls EXCEPT ![h].lock.pc = "delay",
                                         ![h].lock.spunAt =
                                             IF @ = 0 THEN now ELSE @,
                                         ![h].lock.wakeAt =
                                             delay(now, m._spinDelay)]
               /\ raced' = [raced EXCEPT ![h] = NoRival]
               /\ UNCHANGED active
    /\ UNCHANGED <<mutex, dbState, store, now, held,
                   deadline, released, failures, ncalls,
                   releaseSeen>>

\* LockMetaReqSuccess with a maximum of two attempts: a call denied again
\* after its wait gives up and rejects.
LockMetaReqSuccess_GivesUp(h) ==
    /\ TxCanStart(h, calls[h].lock)
    /\ LET m == mutex[h]
           lockMeta == store[m._db][m._name]
       IN IF Grantable(lockMeta, m._id, now)
          THEN /\ calls' = [calls EXCEPT ![h].lock.pc = "put",
                                         ![h].lock.expiresAt = now + m._expiry]
               /\ active' = [active EXCEPT ![m._db] = h]
               /\ UNCHANGED raced
          ELSE /\ calls' = [calls EXCEPT ![h].lock.pc =
                                             IF calls[h].lock.spunAt = 0
                                             THEN "delay" ELSE "rejected",
                                         ![h].lock.spunAt =
                                             IF @ = 0 THEN now ELSE @,
                                         ![h].lock.wakeAt =
                                             IF calls[h].lock.spunAt = 0
                                             THEN delay(now, m._spinDelay)
                                             ELSE 0]
               /\ raced' = [raced EXCEPT ![h] = NoRival]
               /\ UNCHANGED active
    /\ UNCHANGED <<mutex, dbState, store, now, held,
                   deadline, released, failures, ncalls,
                   releaseSeen>>

\* LockMetaReqSuccess with the put outside the `if`: a denied attempt writes
\* its own record all the same.
LockMetaReqSuccess_WritesOnDenial(h) ==
    /\ TxCanStart(h, calls[h].lock)
    /\ LET m == mutex[h]
           lockMeta == store[m._db][m._name]
       IN IF Grantable(lockMeta, m._id, now)
          THEN /\ calls' = [calls EXCEPT ![h].lock.pc = "put",
                                         ![h].lock.expiresAt = now + m._expiry]
               /\ active' = [active EXCEPT ![m._db] = h]
               /\ UNCHANGED <<raced, store>>
          ELSE /\ calls' = [calls EXCEPT ![h].lock.pc = "delay",
                                         ![h].lock.spunAt =
                                             IF @ = 0 THEN now ELSE @,
                                         ![h].lock.wakeAt =
                                             delay(now, m._spinDelay)]
               /\ store' = [store EXCEPT ![m._db][m._name] =
                               [owner |-> m._id,
                                expiresAt |-> now + m._expiry]]
               /\ raced' = [raced EXCEPT ![h] = NoRival]
               /\ UNCHANGED active
    /\ UNCHANGED <<mutex, dbState, now, held,
                   deadline, released, failures, ncalls,
                   releaseSeen>>

LockMetaReqSuccess(h) ==
    /\ TxCanStart(h, calls[h].lock)
    /\ LET m == mutex[h]
           lockMeta == store[m._db][m._name]
       IN IF Grantable(lockMeta, m._id, now)
          THEN /\ calls' = [calls EXCEPT ![h].lock.pc = "put",
                                         ![h].lock.expiresAt = now + m._expiry]
               /\ active' = [active EXCEPT ![m._db] = h]
               /\ UNCHANGED raced
          ELSE \* resolve(false); lock() goes on to `await delay(...)`
               /\ calls' = [calls EXCEPT ![h].lock.pc = "delay",
                                         ![h].lock.spunAt =
                                             IF @ = 0 THEN now ELSE @,
                                         ![h].lock.wakeAt =
                                             delay(now, m._spinDelay)]
               /\ raced' = [raced EXCEPT ![h] = NoRival]
               /\ UNCHANGED active
    /\ UNCHANGED <<mutex, dbState, store, now, held,
                   deadline, released, failures, ncalls,
                   releaseSeen>>

\* A failed get treated like a denied attempt: lock() waits and tries again.
LockMetaReqError_Retries(h) ==
    /\ TxCanStart(h, calls[h].lock)
    /\ failures < MaxFailures
    /\ failures' = failures + 1
    /\ calls' = [calls EXCEPT ![h].lock.pc = "delay",
                              ![h].lock.wakeAt =
                                  delay(now, mutex[h]._spinDelay)]
    /\ raced' = [raced EXCEPT ![h] = NoRival]
    /\ UNCHANGED <<mutex, dbState, store, active, now,
                   held, deadline, released, ncalls, releaseSeen>>

LockMetaReqError(h) ==
    /\ TxCanStart(h, calls[h].lock)
    /\ failures < MaxFailures
    /\ failures' = failures + 1
    /\ calls' = [calls EXCEPT ![h].lock.pc = "rejected"]
    /\ raced' = [raced EXCEPT ![h] = NoRival]
    /\ releaseSeen' = [releaseSeen EXCEPT ![h] = 0]
    /\ UNCHANGED <<mutex, dbState, store, active, now,
                   held, deadline, released, ncalls>>

\* WriteReqSuccess with `expiresAt: this._expiry`: the record written holds
\* the expiry alone, not Date.now() + expiry.
WriteReqSuccess_ExpiryOnly(h) ==
    /\ calls[h].lock.pc = "put"
    /\ LET m == mutex[h]
       IN /\ store' = [store EXCEPT ![m._db][m._name] =
                          [owner |-> m._id,
                           expiresAt |-> m._expiry]]
          /\ active' = [active EXCEPT ![m._db] = NoTx]
    /\ calls' = [calls EXCEPT ![h].lock.pc = "resolved",
                              ![h].lock.expiresAt = 0]
    /\ held' = [held EXCEPT ![h] = ~InFlight(calls[h].unlock)]
    /\ deadline' = [deadline EXCEPT ![h] = mutex[h]._expiry]
    /\ released' = [released EXCEPT ![h] = FALSE]
    /\ raced' = [g \in Handles |->
                    IF g = h THEN NoRival
                    ELSE IF SameRecord(g, h) /\ calls[g].lock.pc = "awaitDb"
                         THEN h
                         ELSE raced[g]]
    /\ releaseSeen' = [releaseSeen EXCEPT ![h] = 0]
    /\ UNCHANGED <<mutex, dbState, now, failures, ncalls>>

WriteReqSuccess(h) ==
    /\ calls[h].lock.pc = "put"
    /\ LET m == mutex[h]
       IN /\ store' = [store EXCEPT ![m._db][m._name] =
                          [owner |-> m._id,
                           expiresAt |-> calls[h].lock.expiresAt]]
          /\ active' = [active EXCEPT ![m._db] = NoTx]
    /\ calls' = [calls EXCEPT ![h].lock.pc = "resolved",
                              ![h].lock.expiresAt = 0]
    /\ held' = [held EXCEPT ![h] = ~InFlight(calls[h].unlock)]
    /\ deadline' = [deadline EXCEPT ![h] = calls[h].lock.expiresAt]
    /\ released' = [released EXCEPT ![h] = FALSE]
    /\ raced' = [g \in Handles |->
                    IF g = h THEN NoRival
                    ELSE IF SameRecord(g, h) /\ calls[g].lock.pc = "awaitDb"
                         THEN h
                         ELSE raced[g]]
    /\ releaseSeen' = [releaseSeen EXCEPT ![h] = 0]
    /\ UNCHANGED <<mutex, dbState, now, failures, ncalls>>

\* WriteReqError of a put that fails after the record has been written.
WriteReqError_Written(h) ==
    /\ calls[h].lock.pc = "put"
    /\ failures < MaxFailures
    /\ failures' = failures + 1
    /\ store' = [store EXCEPT ![mutex[h]._db][mutex[h]._name] =
                    [owner |-> mutex[h]._id,
                     expiresAt |-> calls[h].lock.expiresAt]]
    /\ active' = [active EXCEPT ![mutex[h]._db] = NoTx]
    /\ calls' = [calls EXCEPT ![h].lock.pc = "rejected",
                              ![h].lock.expiresAt = 0]
    /\ raced' = [raced EXCEPT ![h] = NoRival]
    /\ releaseSeen' = [releaseSeen EXCEPT ![h] = 0]
    /\ UNCHANGED <<mutex, dbState, now, held,
                   deadline, released, ncalls>>

\* The put fails: the transaction aborts and nothing is written.
WriteReqError(h) ==
    /\ calls[h].lock.pc = "put"
    /\ failures < MaxFailures
    /\ failures' = failures + 1
    /\ active' = [active EXCEPT ![mutex[h]._db] = NoTx]
    /\ calls' = [calls EXCEPT ![h].lock.pc = "rejected",
                              ![h].lock.expiresAt = 0]
    /\ raced' = [raced EXCEPT ![h] = NoRival]
    /\ releaseSeen' = [releaseSeen EXCEPT ![h] = 0]
    /\ UNCHANGED <<mutex, dbState, store, now, held,
                   deadline, released, ncalls>>

\* setTimeout fires no sooner than the delay asked for.
DelayElapsed(h) ==
    /\ calls[h].lock.pc = "delay"
    /\ now >= calls[h].lock.wakeAt
    /\ calls' = [calls EXCEPT ![h].lock.pc = "awaitDb", ![h].lock.wakeAt = 0]
    /\ UNCHANGED <<mutex, dbState, store, active, now, held,
                   deadline, released, failures, ncalls,
                   raced, releaseSeen>>

(***************************************************************************)
(* unlock: one readwrite transaction with one put.                         *)
(***************************************************************************)
\* unlock() clearing the object store instead of writing one record.
UnlockReqSuccess_ClearsStore(h) ==
    /\ TxCanStart(h, calls[h].unlock)
    /\ store' = [store EXCEPT ![mutex[h]._db] = [n \in Names |-> Unlocked]]
    /\ released' = [g \in Handles |->
                       IF SameRecord(g, h) THEN TRUE ELSE released[g]]
    /\ releaseSeen' = [g \in Handles |->
                          IF SameRecord(g, h) /\ Spinning(calls[g].lock)
                          THEN now
                          ELSE releaseSeen[g]]
    /\ calls' = [calls EXCEPT ![h].unlock.pc = "resolved"]
    /\ UNCHANGED <<mutex, dbState, active, now, held,
                   deadline, failures, ncalls, raced>>

UnlockReqSuccess(h) ==
    /\ TxCanStart(h, calls[h].unlock)
    /\ store' = [store EXCEPT ![mutex[h]._db][mutex[h]._name] = Unlocked]
    /\ released' = [g \in Handles |->
                       IF SameRecord(g, h) THEN TRUE ELSE released[g]]
    /\ calls' = [calls EXCEPT ![h].unlock.pc = "resolved"]
    /\ releaseSeen' = [g \in Handles |->
                          IF SameRecord(g, h) /\ Spinning(calls[g].lock)
                          THEN now
                          ELSE releaseSeen[g]]
    /\ UNCHANGED <<mutex, dbState, active, now, held,
                   deadline, failures, ncalls,
                   raced>>

UnlockReqError(h) ==
    /\ TxCanStart(h, calls[h].unlock)
    /\ failures < MaxFailures
    /\ failures' = failures + 1
    /\ calls' = [calls EXCEPT ![h].unlock.pc = "rejected"]
    /\ UNCHANGED <<mutex, dbState, store, active, now,
                   held, deadline, released, ncalls,
                   raced, releaseSeen>>

(***************************************************************************)
(* Time passes.                                                            *)
(***************************************************************************)
Tick ==
    /\ now < MaxTime
    /\ now' = now + 1
    /\ UNCHANGED <<mutex, dbState, store, active, calls, held,
                   deadline, released, failures, ncalls,
                   raced, releaseSeen>>

\* A call, a callback or a failure of one handle.
HandleStep(h) ==
    \/ OpenSuccess(h)
    \/ OpenError(h)
    \/ Lock(h)
    \/ Unlock(h)
    \/ LockAwaitDbRejected(h)
    \/ UnlockAwaitDbRejected(h)
    \/ LockMetaReqSuccess(h)
    \/ LockMetaReqError(h)
    \/ WriteReqSuccess(h)
    \/ WriteReqError(h)
    \/ DelayElapsed(h)
    \/ UnlockReqSuccess(h)
    \/ UnlockReqError(h)

Next ==
    \/ \E h \in Handles : HandleStep(h)
    \/ Tick

Spec == Init /\ [][Next]_vars

(***************************************************************************)
(* Two lock() calls in flight on one handle.  A Mutex assigns its fields   *)
(* in the constructor only and keeps nothing per call, so two calls on one *)
(* handle are two calls over the same fields and the same database         *)
(* promise: here B and C stand for the two calls of one handle, with equal *)
(* fields and one shared open request, and A is another handle.            *)
(***************************************************************************)
SameHandle(g, h) == mutex[g] = mutex[h]

OverlapInit == Init /\ SameHandle("B", "C")

\* The one open request of the handle succeeds or fails for all its calls.
OverlapOpenSuccess(h) ==
    /\ dbState[h] = "pending"
    /\ \E g \in Handles : SameHandle(g, h) /\ Awaited(g)
    /\ dbState' = [g \in Handles |->
                      IF SameHandle(g, h) THEN "open" ELSE dbState[g]]
    /\ UNCHANGED <<mutex, store, active, calls, now, held,
                   deadline, released, failures, ncalls,
                   raced, releaseSeen>>

OverlapOpenError(h) ==
    /\ dbState[h] = "pending"
    /\ \E g \in Handles : SameHandle(g, h) /\ Awaited(g)
    /\ failures < MaxFailures
    /\ failures' = failures + 1
    /\ dbState' = [g \in Handles |->
                      IF SameHandle(g, h) THEN "error" ELSE dbState[g]]
    /\ UNCHANGED <<mutex, store, active, calls, now,
                   held, deadline, released, ncalls,
                   raced, releaseSeen>>

OverlapStep(h) ==
    \/ OverlapOpenSuccess(h)
    \/ OverlapOpenError(h)
    \/ Lock(h)
    \/ Unlock(h)
    \/ LockAwaitDbRejected(h)
    \/ UnlockAwaitDbRejected(h)
    \/ LockMetaReqSuccess(h)
    \/ LockMetaReqError(h)
    \/ WriteReqSuccess(h)
    \/ WriteReqError(h)
    \/ DelayElapsed(h)
    \/ UnlockReqSuccess(h)
    \/ UnlockReqError(h)

OverlapNext ==
    \/ \E h \in Handles : OverlapStep(h)
    \/ Tick

OverlapSpec == OverlapInit /\ [][OverlapNext]_vars

(***************************************************************************)
(* The same program on a prompt event loop and a prompt store: a timer     *)
(* fires in the millisecond it is due in and a request that can be served  *)
(* is served before the clock moves on.  This is the timing the test       *)
(* 'waits if the lock is contended' asserts a bound under; setTimeout and  *)
(* IndexedDB themselves promise no upper bound.                            *)
(***************************************************************************)
\* Some callback is due.
Urgent ==
    \E h \in Handles :
        \/ dbState[h] = "pending" /\ Awaited(h)
        \/ dbState[h] = "error" /\ Awaited(h)
        \/ TxCanStart(h, calls[h].lock)
        \/ TxCanStart(h, calls[h].unlock)
        \/ calls[h].lock.pc = "put"
        \/ calls[h].lock.pc = "delay" /\ now >= calls[h].lock.wakeAt

PromptTick == ~Urgent /\ Tick

NextPrompt ==
    \/ \E h \in Handles : HandleStep(h)
    \/ PromptTick

TimedSpec == Init /\ [][NextPrompt]_vars

(***************************************************************************)
(* Vocabulary of the properties.                                           *)
(***************************************************************************)
\* Two handles bound to one record.
Contenders(a, b) == a # b /\ SameRecord(a, b)

\* No other handle bound to h's record drew h's id.
UniqueId(h) ==
    \A g \in Handles : Contenders(g, h) => mutex[g]._id # mutex[h]._id

\* h's _tryLock has read the record as grantable and is writing it.
Granted(h) == calls[h].lock.pc = "put"

\* h's _tryLock has returned false and lock() waits for the next attempt.
Denied(h) == calls[h].lock.pc = "delay"

\* h's last lock() has entered the spinDelay wait.
Spun(h) == calls[h].lock.spunAt # 0

\* The record h's last granted _tryLock wrote has expired.
Expired(h) == deadline[h] < now

TheRecord(h) == store[mutex[h]._db][mutex[h]._name]

(***************************************************************************)
(* C1  Mutual exclusion between a holder and a contender.                  *)
(***************************************************************************)
\* C1 as stated, for handles with different ids: while A has completed
\* lock(), has not called unlock() and its expiry has not passed, no
\* _tryLock of a contender B is granted.
C1_DeniedWhileHeld ==
    \A a, b \in Handles :
        ( /\ Contenders(a, b)
          /\ mutex[a]._id # mutex[b]._id
          /\ held[a]
          /\ ~Expired(a) )
        => ~Granted(b)

\* C1 amended: while A has completed lock() and has not called unlock(), no
\* unlock() of any handle has written the record since A acquired it, A's
\* expiresAt has not passed and no other handle shares A's id, no _tryLock
\* of a contender B is granted.
C1_DeniedWhileHeldUnreleased ==
    \A a, b \in Handles :
        ( /\ Contenders(a, b)
          /\ UniqueId(a)
          /\ held[a]
          /\ ~released[a]
          /\ ~Expired(a) )
        => ~Granted(b)

\* A holds the lock, unreleased and unexpired, and B has just been denied.
C1_Witness ==
    \E a, b \in Handles :
        /\ Contenders(a, b)
        /\ UniqueId(a)
        /\ held[a]
        /\ ~released[a]
        /\ ~Expired(a)
        /\ Denied(b)

C3_OneWinner ==
    \A a \in Handles :
        ( /\ UniqueId(a)
          /\ Granted(a)
          /\ \A c \in Handles : calls[c].unlock.pc = "idle" )
        => raced[a] = NoRival

\* C3 amended: no two _tryLock transactions on one object store are ever
\* both between their get and their put; a _tryLock is never denied on an
\* absent record; and a _tryLock that was waiting for its transaction when
\* another handle's returned true is granted only if the winner's record has
\* expired or has been overwritten by an unlock() (the two handles' ids not
\* being shared with any other handle).
C3_AtomicCompareAndSwap ==
    /\ \A a, b \in Handles :
          a # b /\ mutex[a]._db = mutex[b]._db => ~(Granted(a) /\ Granted(b))
    /\ \A a \in Handles : Denied(a) => TheRecord(a) # Absent
    /\ \A a, b \in Handles :
          ( /\ Contenders(a, b)
            /\ UniqueId(a)
            /\ UniqueId(b)
            /\ Granted(a)
            /\ raced[a] = b )
          => Expired(b) \/ released[b]

\* Two _tryLock calls waited together on an absent record; one has returned
\* true and written the record, the other has then been denied.
C3_Witness ==
    \E a, b \in Handles :
        /\ Contenders(a, b)
        /\ UniqueId(a)
        /\ UniqueId(b)
        /\ calls[b].lock.pc = "resolved"
        /\ TheRecord(b) = [owner |-> mutex[b]._id, expiresAt |-> deadline[b]]
        /\ ~Expired(b)
        /\ ~released[b]
        /\ Denied(a)
        /\ \A c \in Handles : calls[c].unlock.pc = "idle"
        /\ ncalls = 2
(***************************************************************************)
(* C4  Liveness under release.                                             *)
(***************************************************************************)
\* The latest time at which a waiter that saw a release at time t makes an
\* attempt, if it is to acquire within one spinDelay of the release.
WithinOneSpin(h, t) ==
    /\ now <= t + mutex[h]._spinDelay
    /\ Denied(h) => calls[h].lock.wakeAt <= t + mutex[h]._spinDelay

\* C4 as stated, on a prompt event loop: a handle B whose lock() was
\* spinning when an unlock() wrote the record has acquired the lock, or is
\* about to make an attempt, no later than one spinDelay after that write.
C4_AcquiresWithinOneSpin ==
    \A b \in Handles :
        releaseSeen[b] # 0 => WithinOneSpin(b, releaseSeen[b])

\* C4 amended, on a prompt event loop: a handle B whose lock() was spinning
\* when an unlock() last wrote the record acquires the lock no later than
\* one spinDelay after that write, provided no _tryLock of another handle
\* has written the record in the meantime (the record is still the one
\* unlock() wrote).
C4_AcquiresReleasedWithinOneSpin ==
    \A b \in Handles :
        releaseSeen[b] # 0 /\ TheRecord(b) = Unlocked
        => WithinOneSpin(b, releaseSeen[b])

\* B's lock() was spinning when the holder's unlock() wrote the record; its
\* next attempt, one spinDelay later, is granted.
C4_Witness ==
    \E a, b \in Handles :
        /\ Contenders(a, b)
        /\ calls[a].unlock.pc = "resolved"
        /\ releaseSeen[b] # 0
        /\ TheRecord(b) = Unlocked
        /\ Granted(b)
        /\ Spun(b)
        /\ now = releaseSeen[b] + mutex[b]._spinDelay

(***************************************************************************)
(* C5  Liveness under expiry.                                              *)
(***************************************************************************)
\* What h's last granted _tryLock wrote.
OwnRecord(h) == [owner |-> mutex[h]._id, expiresAt |-> deadline[h]]

\* C5 as stated, on a prompt event loop and for handles whose ids no other
\* handle shares: while A, having acquired, neither calls unlock() nor
\* lock() again, a handle B that is between attempts, and was first denied
\* before A's expiresAt passed, makes its next attempt no later than one
\* spinDelay after A's expiresAt.
C5_AcquiresWithinOneSpinOfExpiry ==
    \A a, b \in Handles :
        ( /\ Contenders(a, b)
          /\ UniqueId(a)
          /\ UniqueId(b)
          /\ held[a]
          /\ calls[a].lock.pc = "resolved"
          /\ Denied(b)
          /\ calls[b].lock.spunAt <= deadline[a] )
        => WithinOneSpin(b, deadline[a])

\* C5 amended, on a prompt event loop: while A, having acquired, neither
\* calls unlock() nor lock() again and the record is still the one A wrote
\* (no other handle has acquired or released in the meantime), a handle B
\* that is between attempts makes its next attempt no later than one
\* spinDelay after A's expiresAt; a granted _tryLock writes an expiresAt
\* greater than the current time, and the record of a handle whose lock()
\* has resolved and whose lock is neither expired nor released has its id as
\* owner (no other handle sharing that id).
C5_AcquiresExpiredWithinOneSpin ==
    /\ \A a, b \in Handles :
          ( /\ Contenders(a, b)
            /\ held[a]
            /\ calls[a].lock.pc = "resolved"
            /\ TheRecord(a) = OwnRecord(a)
            /\ Denied(b) )
          => WithinOneSpin(b, deadline[a])
    /\ \A b \in Handles : Granted(b) => calls[b].lock.expiresAt > now
    /\ \A b \in Handles :
          ( /\ UniqueId(b)
            /\ calls[b].lock.pc = "resolved"
            /\ ~released[b]
            /\ ~Expired(b) )
          => TheRecord(b) = OwnRecord(b)

\* A's record has expired with no unlock() called by anyone; B, which was
\* denied until then, is granted one spinDelay after A's expiresAt.
C5_Witness ==
    \E a, b \in Handles :
        /\ Contenders(a, b)
        /\ mutex[a]._id # mutex[b]._id
        /\ held[a]
        /\ TheRecord(a) = OwnRecord(a)
        /\ Expired(a)
        /\ Granted(b)
        /\ Spun(b)
        /\ calls[b].lock.expiresAt > now
        /\ now = deadline[a] + mutex[b]._spinDelay
        /\ \A c \in Handles : calls[c].unlock.pc = "idle"
(***************************************************************************)
(* C6  Idempotent self-reacquisition.                                      *)
(***************************************************************************)
\* C6 as stated: a lock() called by a handle whose earlier lock() has
\* resolved, with no unlock() called by it and none written by anyone
\* since, never enters the spinDelay wait.
C6_ReacquiresWithoutSpin ==
    \A h \in Handles :
        ( /\ InFlight(calls[h].lock)
          /\ held[h]
          /\ ~released[h] )
        => ~Spun(h)

\* C6 amended: a lock() called by a handle whose earlier lock() has
\* resolved, with no unlock() called by it and none written by anyone since,
\* and with the record still the one its earlier lock() wrote (no other
\* handle has acquired the lock after its expiry), never enters the
\* spinDelay wait.
C6_ReacquiresOwnRecordWithoutSpin ==
    \A h \in Handles :
        ( /\ InFlight(calls[h].lock)
          /\ held[h]
          /\ ~released[h]
          /\ TheRecord(h) = OwnRecord(h) )
        => ~Spun(h)

\* The second lock() of a handle is granted at its first attempt on the
\* unexpired record its first lock() wrote.
C6_Witness ==
    \E h \in Handles :
        /\ held[h]
        /\ ~released[h]
        /\ ~Expired(h)
        /\ TheRecord(h) = OwnRecord(h)
        /\ Granted(h)
        /\ ~Spun(h)
(***************************************************************************)
(* Steps of the calls, as the properties below see them.                   *)
(***************************************************************************)
\* h's unlock() completes in this step.
UnlockCompletes(h) ==
    calls[h].unlock.pc = "awaitDb" /\ calls'[h].unlock.pc = "resolved"

\* A _tryLock of h gets its answer from the store in this step.
TryLockAnswered(h) ==
    calls[h].lock.pc = "awaitDb" /\ calls'[h].lock.pc \in {"put", "delay"}

\* A request of the store fails in this step.
RequestFails == failures' = failures + 1

(***************************************************************************)
(* C7  unlock() on a free lock.                                            *)
(***************************************************************************)
\* C7: an unlock() that completes on a record never written, or already
\* unlocked, leaves the record {owner: null, expiresAt: 0}; on a record
\* already unlocked it changes nothing in the store, so unlock() called any
\* number of times in a row leaves what one call leaves.
C7_UnlockFreeIsNoOp ==
    [][ \A h \in Handles :
           UnlockCompletes(h) /\ TheRecord(h).owner \in {"undefined", "null"}
           => /\ TheRecord(h)' = [owner |-> "null", expiresAt |-> 0]
              /\ TheRecord(h).owner = "null" => store' = store ]_vars

\* Two unlock() calls in a row have completed on a name no handle ever
\* locked.
C7_Witness ==
    /\ ncalls = 2
    /\ \A h \in Handles : calls[h].lock.pc = "idle"
    /\ \E h \in Handles :
          /\ calls[h].unlock.pc = "resolved"
          /\ TheRecord(h) = [owner |-> "null", expiresAt |-> 0]
          /\ \A g \in Handles :
                calls[g].unlock.pc \in {"idle", "resolved"}
          /\ failures = 0

(***************************************************************************)
(* C8  unlock() performs no ownership check.                               *)
(***************************************************************************)
\* C8: an unlock() that completes writes {owner: null, expiresAt: 0} over
\* the record whatever it held, and a _tryLock answered on the record
\* unlock() wrote is granted, whatever the handle.
C8_UnlockFreesForAnyone ==
    [][ \A h \in Handles :
           /\ UnlockCompletes(h)
              => TheRecord(h)' = [owner |-> "null", expiresAt |-> 0]
           /\ TryLockAnswered(h)
                 /\ TheRecord(h) = [owner |-> "null", expiresAt |-> 0]
              => calls'[h].lock.pc = "put" ]_vars

\* B's unlock() has overwritten the unexpired record of A, which has not
\* called unlock(), and a _tryLock on the record it wrote is granted.
C8_Witness ==
    \E a, b, c \in Handles :
        /\ Contenders(a, b)
        /\ UniqueId(a)
        /\ held[a]
        /\ ~Expired(a)
        /\ released[a]
        /\ calls[a].unlock.pc = "idle"
        /\ calls[b].unlock.pc = "resolved"
        /\ SameRecord(b, c)
        /\ c # a
        /\ TheRecord(c) = [owner |-> "null", expiresAt |-> 0]
        /\ Granted(c)

(***************************************************************************)
(* C9  Isolation between lock records.                                     *)
(***************************************************************************)
\* C9: a step of a call of handle h changes no record but the one of h's
\* database and name, so whether any other record can be acquired is what
\* it was; and a _tryLock of h is denied only on what h's own record holds.
C9_Isolation ==
    [][ \A h \in Handles :
           calls'[h] # calls[h]
           => /\ \A d \in Dbs, n \in Names :
                    d # mutex[h]._db \/ n # mutex[h]._name
                    => /\ store'[d][n] = store[d][n]
                       /\ \A g \in Handles :
                             Grantable(store'[d][n], mutex[g]._id, now')
                             <=> Grantable(store[d][n], mutex[g]._id, now)
              /\ TryLockAnswered(h) /\ calls'[h].lock.pc = "delay"
                 => ~Grantable(TheRecord(h), mutex[h]._id, now) ]_vars

\* Two handles hold live locks at once, one on each of two records with the
\* same name in two databases or with two names in one database, one of
\* them having released and acquired its own again.
C9_Witness ==
    \E a, b \in Handles :
        /\ ~SameRecord(a, b)
        /\ held[a] /\ ~Expired(a) /\ ~released[a]
        /\ held[b] /\ ~Expired(b) /\ ~released[b]
        /\ TheRecord(a) = OwnRecord(a)
        /\ TheRecord(b) = OwnRecord(b)
        /\ calls[a].unlock.pc = "resolved"

(***************************************************************************)
(* C10  Failures reject, denials retry.                                    *)
(***************************************************************************)
\* C10: a request that fails during a _tryLock rejects lock(), and a
\* rejected lock() makes no further attempt (only a new call leaves that
\* state); a denied attempt fails nothing and puts lock() in a wait of
\* spinDelay, which only another attempt ends, and not before spinDelay
\* has passed; a request that fails during unlock() rejects unlock().
C10_FailuresRejectDenialsRetry ==
    [][ \A h \in Handles :
           LET lock == calls[h].lock
               lock2 == calls'[h].lock
           IN /\ RequestFails /\ lock2 # lock => lock2.pc = "rejected"
              /\ RequestFails /\ calls'[h].unlock # calls[h].unlock
                 => calls'[h].unlock.pc = "rejected"
              /\ lock.pc = "rejected" /\ lock2 # lock
                 => /\ [lock2 EXCEPT !.renews = FALSE] = NewCall
                    /\ ncalls' = ncalls + 1
              /\ TryLockAnswered(h) /\ lock2.pc = "delay"
                 => /\ ~RequestFails
                    /\ lock2.wakeAt = now + mutex[h]._spinDelay
              /\ lock.pc = "delay" /\ lock2 # lock
                 => /\ lock2.pc = "awaitDb"
                    /\ lock2.spunAt = lock.spunAt
                    /\ ncalls' = ncalls
                    /\ now >= lock.wakeAt ]_vars

\* A lock() that had been denied and was trying again has been rejected by
\* a failed request of its transaction.
C10_Witness ==
    \E h \in Handles :
        /\ calls[h].lock.pc = "rejected"
        /\ Spun(h)
        /\ dbState[h] = "open"
        /\ failures = 1
(***************************************************************************)
(* C11: lock() does not spin when the lock is not held.  The first         *)
(* tryLock() of a lock() call that finds the record absent, released       *)
(* ({owner: null, expiresAt: 0}) or expired is granted; the call goes      *)
(* from the granted attempt straight to its end, without a second attempt  *)
(* and without ever waiting spinDelay.                                     *)
(***************************************************************************)
NotHeld(lockMeta, t) ==
    \/ lockMeta.owner = "undefined"
    \/ lockMeta = [owner |-> "null", expiresAt |-> 0]
    \/ lockMeta.expiresAt < t

C11_NoSpinWhenNotHeld ==
    [][\A h \in Handles :
          /\ (/\ TryLockAnswered(h)
              /\ ~Spun(h)
              /\ NotHeld(TheRecord(h), now))
             => /\ calls'[h].lock.pc = "put"
                /\ calls'[h].lock.spunAt = 0
                /\ calls'[h].lock.wakeAt = 0
          /\ (Granted(h) /\ calls'[h].lock # calls[h].lock)
             => /\ calls'[h].lock.pc \in {"resolved", "rejected"}
                /\ calls'[h].lock.pc = "rejected" => RequestFails
                /\ calls'[h].lock.spunAt = calls[h].lock.spunAt]_vars

\* A lock() has resolved without a wait on the record another handle had
\* written and let expire.
C11_Witness ==
    \E a, b \in Handles :
        /\ Contenders(a, b)
        /\ UniqueId(a) /\ UniqueId(b)
        /\ calls[b].lock.pc = "resolved"
        /\ ~Spun(b)
        /\ TheRecord(b) = OwnRecord(b)
        /\ deadline[a] # 0 /\ deadline[a] < deadline[b] - mutex[b]._expiry
        /\ ~released[a]
        /\ calls[a].unlock.pc = "idle" /\ calls[b].unlock.pc = "idle"

(***************************************************************************)
(* C12: what a granted tryLock() writes, and what lock() leaves.           *)
(***************************************************************************)
\* C12 as stated: at the moment lock() resolves the stored expiresAt is
\* later than the current time.  lock() resolves in the step that completes
\* the put, which can be taken in every state with the put pending, so the
\* statement is that the expiresAt of a pending put is later than the
\* current time.
C12_ExpiresAfterResolution ==
    \A h \in Handles : Granted(h) => calls[h].lock.expiresAt > now

\* C12: every granted tryLock() computes expiresAt as Date.now() + expiry at
\* the time it reads the record, which is later than that time, and the step
\* that resolves lock() leaves the record {owner: the caller's id, a string,
\* expiresAt: that sum}.  The sum is later than the time of the resolution
\* when the put has taken less than expiry ms.
C12_WritesOwnerAndExpiry ==
    [][\A h \in Handles :
          /\ (TryLockAnswered(h) /\ calls'[h].lock.pc = "put")
             => /\ calls'[h].lock.expiresAt = now + mutex[h]._expiry
                /\ calls'[h].lock.expiresAt > now
          /\ (Granted(h) /\ calls'[h].lock.pc = "resolved")
             => /\ TheRecord(h)' = [owner |-> mutex[h]._id,
                                    expiresAt |-> calls[h].lock.expiresAt]
                /\ mutex[h]._id \in STRING
                /\ TheRecord(h)'.expiresAt - mutex[h]._expiry <= now
                /\ (now - (calls[h].lock.expiresAt - mutex[h]._expiry)
                        < mutex[h]._expiry)
                   => TheRecord(h)'.expiresAt > now]_vars

\* A lock() has resolved with a default expiry: the record is the caller's
\* and runs out 10000 ms after the read.
C12_Witness ==
    \E h \in Handles :
        /\ calls[h].lock.pc = "resolved"
        /\ mutex[h]._expiry = 10000
        /\ TheRecord(h).owner = mutex[h]._id
        /\ TheRecord(h).expiresAt > now
        /\ TheRecord(h).expiresAt <= now + 10000
        /\ now > StartTime

(***************************************************************************)
(* C13: the grant condition.  A tryLock() is granted if and only if the    *)
(* record is absent, or its owner is this handle's id, or its expiresAt    *)
(* is strictly less than the current time; on the record of another id     *)
(* whose expiresAt equals the current time it is denied.                   *)
(***************************************************************************)
C13_GrantCondition ==
    [][\A h \in Handles :
          TryLockAnswered(h)
          => /\ calls'[h].lock.pc = "put"
                <=> \/ TheRecord(h).owner = "undefined"
                    \/ TheRecord(h).owner = mutex[h]._id
                    \/ TheRecord(h).expiresAt < now
             /\ (/\ TheRecord(h).owner \notin {"undefined", mutex[h]._id}
                 /\ TheRecord(h).expiresAt = now)
                => calls'[h].lock.pc = "delay"]_vars

\* A tryLock() has just been denied on the record of another id in the very
\* millisecond the record expires at.
C13_Witness ==
    \E a, b \in Handles :
        /\ Contenders(a, b)
        /\ Denied(b)
        /\ calls[b].lock.wakeAt = now + mutex[b]._spinDelay
        /\ TheRecord(b) = OwnRecord(a)
        /\ mutex[a]._id # mutex[b]._id
        /\ deadline[a] = now

(***************************************************************************)
(* C14: a denied tryLock() performs no write.  The step that answers an    *)
(* attempt with a denial leaves every record as it was and leaves no       *)
(* transaction behind, whichever attempt of whichever contender it is.     *)
(***************************************************************************)
C14_DeniedWritesNothing ==
    [][\A h \in Handles :
          (TryLockAnswered(h) /\ calls'[h].lock.pc = "delay")
          => /\ store' = store
             /\ active' = active
             /\ calls'[h].lock.expiresAt = 0]_vars

\* Two contenders have each been denied twice on the record a third handle
\* holds, and the record is still the one the holder wrote.
C14_Witness ==
    \E a, b, c \in Handles :
        /\ Contenders(a, b) /\ Contenders(a, c) /\ b # c
        /\ held[a] /\ ~released[a] /\ ~Expired(a)
        /\ TheRecord(a) = OwnRecord(a)
        /\ \A w \in {b, c} :
              /\ Denied(w)
              /\ mutex[w]._id # mutex[a]._id
              /\ calls[w].lock.spunAt < now
              /\ calls[w].lock.wakeAt = now + mutex[w]._spinDelay

(***************************************************************************)
(* C15: lock() retries without bound and without cancellation.  Every      *)
(* denial, the first or a later one, sets the same wait of spinDelay; the  *)
(* wait is left only by another attempt; a call in flight ends only by a   *)
(* grant whose put completes or by a failure of the store; spinDelay never *)
(* changes, and no step of the handle's unlock() touches its lock().       *)
(***************************************************************************)
C15_RetriesUntilGrantedOrFailed ==
    [][/\ mutex' = mutex
       /\ \A h \in Handles :
          LET call == calls[h].lock
              next == calls'[h].lock
          IN /\ (TryLockAnswered(h) /\ next.pc = "delay")
                => next.wakeAt = now + mutex[h]._spinDelay
             /\ (call.pc = "delay" /\ next # call) => next.pc = "awaitDb"
             /\ (call.pc = "awaitDb" /\ next # call)
                => \/ next.pc \in {"put", "delay"}
                   \/ next.pc = "rejected"
                      /\ (RequestFails \/ dbState[h] = "error")
             /\ (call.pc = "put" /\ next # call)
                => \/ next.pc = "resolved"
                   \/ next.pc = "rejected" /\ RequestFails
             /\ calls'[h].unlock # calls[h].unlock => next = call]_vars

\* A lock() first denied at 1 ms has been denied again at 3 ms and waits
\* spinDelay once more for the lock another handle still holds.
C15_Witness ==
    \E a, b \in Handles :
        /\ Contenders(a, b)
        /\ mutex[a]._id # mutex[b]._id
        /\ TheRecord(b) = OwnRecord(a) /\ ~Expired(a)
        /\ Denied(b)
        /\ mutex[b]._spinDelay = 1
        /\ calls[b].lock.spunAt = StartTime
        /\ now = StartTime + 2
        /\ calls[b].lock.wakeAt = now + 1

(***************************************************************************)
(* C16: no fairness among waiters.  An attempt of a waiter answered on a   *)
(* released or expired record is granted although another waiter on the    *)
(* same record began to wait earlier and is waiting still; the earlier     *)
(* waiter is left where it was.                                            *)
(***************************************************************************)
C16_LaterWaiterGrantedFirst ==
    [][\A g, h \in Handles :
          (/\ Contenders(g, h)
           /\ TryLockAnswered(h)
           /\ Spun(h)
           /\ Spinning(calls[g].lock)
           /\ calls[g].lock.spunAt < calls[h].lock.spunAt
           /\ \/ TheRecord(h) = [owner |-> "null", expiresAt |-> 0]
              \/ TheRecord(h).expiresAt < now)
          => /\ calls'[h].lock.pc = "put"
             /\ calls'[g].lock = calls[g].lock]_vars

\* A waiter holds the lock the holder released, while a waiter denied for
\* the first time before it is waiting still.
C16_Witness ==
    \E a, b, c \in Handles :
        /\ Contenders(a, b) /\ Contenders(a, c) /\ Contenders(b, c)
        /\ UniqueId(a) /\ UniqueId(b) /\ UniqueId(c)
        /\ released[a]
        /\ calls[c].lock.pc = "resolved"
        /\ TheRecord(c) = OwnRecord(c) /\ ~Expired(c)
        /\ Denied(b)
        /\ calls[b].lock.spunAt # 0
        /\ calls[b].lock.spunAt < calls[c].lock.spunAt

(***************************************************************************)
(* C17: the lock record is never deleted.  A record that exists exists     *)
(* after every step; a record changes only in the step that completes the  *)
(* put of a granted tryLock() on it, which leaves the caller's record, or  *)
(* in the step that completes an unlock() on it, which leaves              *)
(* {owner: null, expiresAt: 0}.                                            *)
(***************************************************************************)
C17_NeverDeleted ==
    [][\A db \in Dbs, name \in Names :
          /\ store[db][name].owner # "undefined"
             => store'[db][name].owner # "undefined"
          /\ store'[db][name] # store[db][name]
             => \E h \in Handles :
                   /\ mutex[h]._db = db /\ mutex[h]._name = name
                   /\ \/ /\ Granted(h)
                         /\ calls'[h].lock.pc = "resolved"
                         /\ store'[db][name] =
                               [owner |-> mutex[h]._id,
                                expiresAt |-> calls[h].lock.expiresAt]
                      \/ /\ UnlockCompletes(h)
                         /\ store'[db][name] =
                               [owner |-> "null", expiresAt |-> 0]]_vars

\* The record a lock() created is still there after the unlock() that
\* followed it, as the released record.
C17_Witness ==
    \E h \in Handles :
        /\ deadline[h] # 0
        /\ released[h]
        /\ calls[h].lock.pc = "resolved"
        /\ calls[h].unlock.pc = "resolved"
        /\ TheRecord(h).owner = "null"
        /\ TheRecord(h).expiresAt = 0

(***************************************************************************)
(* C18: the id distinguishes the handle from every other handle, so a      *)
(* tryLock() is never granted through `owner === this._id` on a record     *)
(* another handle wrote.  A grant on a record that is neither absent nor   *)
(* expired is a grant through the owner test; the record a handle wrote    *)
(* last is OwnRecord of the handle.                                        *)
(***************************************************************************)
C18_OwnerTestPassesForWriterOnly ==
    \A b \in Handles :
        (/\ Granted(b)
         /\ TheRecord(b).owner # "undefined"
         /\ ~ (TheRecord(b).expiresAt < calls[b].lock.expiresAt
                                           - mutex[b]._expiry))
        => TheRecord(b) = OwnRecord(b)

(***************************************************************************)
(* C19: a failed open is permanent for the handle.  Once the open request  *)
(* of a handle has failed it stays failed; a call of the handle that       *)
(* awaits the database can only reject; no call of the handle ever gets    *)
(* to a transaction (a put, a wait for another attempt, a completion), and *)
(* no step of the handle changes a record.                                 *)
(***************************************************************************)
C19_OpenFailureIsPermanent ==
    [][\A h \in Handles :
          dbState[h] = "error"
          => /\ dbState'[h] = "error"
             /\ \A op \in {"lock", "unlock"} :
                   /\ calls'[h][op].pc \in {"idle", "awaitDb", "rejected"}
                   /\ (calls[h][op].pc = "awaitDb"
                       /\ calls'[h][op] # calls[h][op])
                      => calls'[h][op].pc = "rejected"
             /\ active'[mutex[h]._db] # h
             /\ calls'[h] # calls[h] => store' = store
             /\ deadline'[h] = 0]_vars

\* One failed open has rejected three calls of a handle, lock() and
\* unlock(), and no other handle has made a call.
C19_Witness ==
    \E h \in Handles :
        /\ dbState[h] = "error"
        /\ failures = 1
        /\ ncalls = 3
        /\ calls[h].lock.pc = "rejected"
        /\ calls[h].unlock.pc = "rejected"
        /\ \A g \in Handles \ {h} :
              calls[g] = [lock |-> IdleCall, unlock |-> IdleCall]

(***************************************************************************)
(* C20: a failure is scoped to the call it ends.  The step in which a get  *)
(* or a put of a call fails rejects that call and nothing else: every      *)
(* record, the handles, the open databases and every other call are as     *)
(* before, and no transaction of the call is left running.  A call made    *)
(* after a rejected one starts as a first call does.                       *)
(***************************************************************************)
C20_FailureScopedToCall ==
    [][\A h \in Handles :
          /\ (RequestFails /\ calls'[h] # calls[h])
             => /\ store' = store
                /\ mutex' = mutex
                /\ dbState' = dbState
                /\ deadline' = deadline
                /\ active' = [active EXCEPT ![mutex[h]._db] = NoTx]
                /\ \A g \in Handles \ {h} : calls'[g] = calls[g]
                /\ \E op \in {"lock", "unlock"} :
                      /\ InFlight(calls[h][op])
                      /\ calls'[h][op].pc = "rejected"
                      /\ \A other \in {"lock", "unlock"} \ {op} :
                            calls'[h][other] = calls[h][other]
          /\ \A op \in {"lock", "unlock"} :
                (calls[h][op].pc = "rejected"
                 /\ calls'[h][op] # calls[h][op])
                => /\ calls'[h][op].pc = "awaitDb"
                   /\ calls'[h][op].wakeAt = 0
                   /\ calls'[h][op].expiresAt = 0
                   /\ calls'[h][op].spunAt = 0]_vars

\* A handle has called lock() twice and nothing else has been called: the
\* first call was rejected by a failed request on the open database and
\* the second holds the lock.
C20_Witness ==
    \E h \in Handles :
        /\ dbState[h] = "open"
        /\ failures = 1
        /\ ncalls = 2
        /\ calls[h].unlock = IdleCall
        /\ calls[h].lock.pc = "resolved"
        /\ TheRecord(h) = OwnRecord(h)
        /\ \A g \in Handles \ {h} :
              calls[g] = [lock |-> IdleCall, unlock |-> IdleCall]

(***************************************************************************)
(* C21: renewal by re-acquisition.                                         *)
(***************************************************************************)
\* C21 as stated: a holder that calls lock() again before the expiresAt of
\* its record is not taken over.  While such a call of the holder waits for
\* its first answer, no contender of another id is granted on the holder's
\* record.
C21_RenewingHolderNotTakenOver ==
    \A a, c \in Handles :
        (/\ Contenders(a, c)
         /\ mutex[a]._id # mutex[c]._id
         /\ calls[a].lock.renews
         /\ calls[a].lock.pc = "awaitDb"
         /\ ~Spun(a)
         /\ TheRecord(a) = OwnRecord(a))
        => ~Granted(c)

\* C21: an attempt answered on the handle's own record is granted, expired
\* or not, with expiresAt Date.now() + expiry; the put of a grant on the
\* handle's own record leaves a record that expires no sooner than the one
\* it replaces, so one written by the time the old record expires at is
\* itself unexpired; and an attempt of a contender of another id answered
\* on a holder's record by the time it expires at is denied and changes
\* nothing.  A holder whose every renewal is written no later than the
\* expiresAt then stored is never taken over by a contender's lock().
C21_RenewalInTimeKeepsLock ==
    [][\A a \in Handles :
          /\ (/\ calls[a].lock.pc = "awaitDb"
              /\ calls'[a].lock # calls[a].lock
              /\ dbState[a] = "open"
              /\ ~RequestFails
              /\ TheRecord(a).owner = mutex[a]._id)
             => /\ calls'[a].lock.pc = "put"
                /\ calls'[a].lock.expiresAt = now + mutex[a]._expiry
          /\ (/\ Granted(a)
              /\ calls'[a].lock.pc = "resolved"
              /\ TheRecord(a) = OwnRecord(a))
             => /\ TheRecord(a)' = [owner |-> mutex[a]._id,
                                    expiresAt |-> calls[a].lock.expiresAt]
                /\ TheRecord(a)'.expiresAt >= deadline[a]
                /\ deadline[a] >= now => ~(TheRecord(a)'.expiresAt < now)
          /\ \A c \in Handles :
                (/\ Contenders(a, c)
                 /\ mutex[a]._id # mutex[c]._id
                 /\ TryLockAnswered(c)
                 /\ TheRecord(a) = OwnRecord(a)
                 /\ deadline[a] >= now)
                => /\ calls'[c].lock.pc = "delay"
                   /\ store' = store]_vars

\* A holder with an expiry of 1 ms has renewed its record by a lock() made
\* before the expiresAt of the record, and a contender waiting since 1 ms
\* has just been denied on the renewed record at 3 ms.
C21_Witness ==
    \E a, c \in Handles :
        /\ Contenders(a, c)
        /\ mutex[a]._id # mutex[c]._id
        /\ mutex[a]._expiry = 1
        /\ calls[a].lock.renews
        /\ calls[a].lock.pc = "resolved"
        /\ held[a]
        /\ TheRecord(a) = OwnRecord(a)
        /\ deadline[a] = StartTime + 2
        /\ now = deadline[a]
        /\ Denied(c)
        /\ calls[c].lock.spunAt = StartTime
        /\ calls[c].lock.wakeAt = now + mutex[c]._spinDelay

(***************************************************************************)
(* C22: overlapping lock() calls on one handle do not block each other.    *)
(* Of two calls of one handle, an attempt answered on a record that is     *)
(* absent, expired or owned by the handle is granted; no attempt of one is *)
(* answered while the grant of the other is being written, so the one that *)
(* runs second reads what the first wrote and is granted whatever the      *)
(* time; an attempt is never denied on a record owned by the handle; and a *)
(* granted call ends resolved unless its put fails.                        *)
(***************************************************************************)
C22_OverlappingLocksBothGranted ==
    [][\A b, c \in Handles :
          (b # c /\ SameHandle(b, c))
          => /\ (/\ TryLockAnswered(c)
                 /\ \/ TheRecord(c).owner = "undefined"
                    \/ TheRecord(c).expiresAt < now
                    \/ TheRecord(c).owner = mutex[c]._id)
                => calls'[c].lock.pc = "put"
             /\ ~ (Granted(b) /\ TryLockAnswered(c))
             /\ (/\ TryLockAnswered(c)
                 /\ calls[b].lock.pc = "resolved"
                 /\ TheRecord(c) = OwnRecord(b))
                => calls'[c].lock.pc = "put"
             /\ (TryLockAnswered(c) /\ calls'[c].lock.pc = "delay")
                => TheRecord(c).owner # mutex[b]._id
             /\ (Granted(c) /\ calls'[c].lock # calls[c].lock)
                => \/ calls'[c].lock.pc = "resolved"
                   \/ calls'[c].lock.pc = "rejected" /\ RequestFails]_vars

\* Two lock() calls of one handle were in flight at once; the grant of one
\* was written while the other waited for the store, and the other has now
\* been granted on that record, which has not expired.
C22_Witness ==
    \E b, c \in Handles :
        /\ b # c /\ SameHandle(b, c)
        /\ calls[b].lock.pc = "resolved"
        /\ TheRecord(b) = OwnRecord(b)
        /\ ~Expired(b)
        /\ raced[c] = b
        /\ Granted(c)
        /\ ~Spun(c)

====
